---- MODULE Spec2Model ----
(***************************************************************************)
(* Potion derivation engine of skyrim-requiem-alchemy.                     *)
(*                                                                         *)
(* The model follows src/src/skyrim_alchemy/alchemy.py: the class level    *)
(* registry Data, Trait.from_row, Potency.create (functools.cache),        *)
(* Potion.traits_by_effects / potencies / effects / pure,                  *)
(* Potion.from_ingredients and the driver read().  The loops of book.py    *)
(* over Potion.from_ingredients of potion.py follow further down, on the   *)
(* same state.                                                             *)
(*                                                                         *)
(* Objects are modelled by reference: a Potency is its index in            *)
(* Data.potencies, a Trait its index in Data.traits, an Ingredient and an  *)
(* Effect their (unique) name.  Prices are fixed point numbers, in         *)
(* thousandths.                                                            *)
(***************************************************************************)
EXTENDS Integers, Sequences, FiniteSets, TLC

\* Number of rows of traits.csv that are read.
MaxTraits == 4

(***************************************************************************)
(* Input tables.                                                           *)
(***************************************************************************)
\* ingredients.csv, in file order.
IngredientRows ==
    << [name |-> "I1", value |-> "10", plantable |-> "False",
        vendor_rarity |-> "common", unique_to |-> ""],
       [name |-> "I2", value |-> "10", plantable |-> "False",
        vendor_rarity |-> "common", unique_to |-> ""],
       [name |-> "I3", value |-> "60", plantable |-> "True",
        vendor_rarity |-> "rare", unique_to |-> "Fishing"] >>

\* What the value and plantable columns of ingredients.csv may hold: well
\* formed tokens, and one token each that is no number and no boolean.
ValueTokens == {"10", "60", "250", "abc"}
PlantableTokens == {"True", "False", "maybe"}

\* The rows line i of ingredients.csv may hold; the file has as many lines
\* as IngredientRows.
RawIngredientRows(i) ==
    IF i \notin DOMAIN IngredientRows THEN {}
    ELSE [name : {IngredientRows[i].name}, value : ValueTokens,
          plantable : PlantableTokens,
          vendor_rarity : {IngredientRows[i].vendor_rarity},
          unique_to : {IngredientRows[i].unique_to}]

\* int(token) of Python on the tokens above: the number a decimal literal
\* denotes; any other token raises ValueError.
int_literals == ("10" :> 10) @@ ("60" :> 60) @@ ("250" :> 250)
int_raises(token) == token \notin DOMAIN int_literals
int(token) == int_literals[token]

IngredientNames == {IngredientRows[i].name : i \in DOMAIN IngredientRows}

EffectNames == {"E1", "E2"}
EffectTypes == {"beneficial", "harmful"}

\* effects.csv, in file order; the type of the second effect is an input.
EffectRows(t2) ==
    << [name |-> "E1", effect_type |-> "beneficial", base_cost |-> 1],
       [name |-> "E2", effect_type |-> t2, base_cost |-> 2] >>

\* Rank of an effect name in the order of Python strings.
NameRank(name) == CASE name = "E1" -> 1 [] name = "E2" -> 2

\* Magnitudes and durations are counted in halves (2 is 1.0), so that the
\* medians of read() are numbers of the model: these are 0, 1.0, 2.0 and 10.
Magnitudes == {0, 2, 4}
Durations == {20}

\* Rows traits.csv may hold.
TraitRows ==
    { r \in [ingredient_name : IngredientNames, effect_name : EffectNames,
             magnitude : Magnitudes, duration : Durations, order : {1}] :
        r.effect_name = "E2" => r.magnitude = 2 }

(***************************************************************************)
(* Sequence helpers.                                                       *)
(***************************************************************************)
Range(s) == {s[i] : i \in DOMAIN s}

RECURSIVE SumSeq(_)
SumSeq(s) == IF s = <<>> THEN 0 ELSE Head(s) + SumSeq(Tail(s))

RECURSIVE SumSet(_)
SumSet(S) == IF S = {} THEN 0
             ELSE LET x == CHOOSE y \in S : TRUE IN x + SumSet(S \ {x})

\* Numbers beyond 32 bits (accessibility factors) are pairs <<hi, lo>> that
\* stand for hi * 10000 + lo, with 0 <= lo < 10000.
big(hi, lo) == <<hi + lo \div 10000, lo % 10000>>

big_lt(a, b) == a[1] < b[1] \/ (a[1] = b[1] /\ a[2] < b[2])

\* (a + b) / 2
big_mid(a, b) ==
    LET hi == a[1] + b[1]
        lo == a[2] + b[2]
    IN  big(hi \div 2, ((hi % 2) * 10000 + lo) \div 2)

\* Stable insertion of x into the sorted sequence s: x goes after every
\* element whose key is not greater than its own (key is a function to
\* such pairs).
RECURSIVE InsertSorted(_, _, _)
InsertSorted(s, x, key) ==
    IF s = <<>> THEN <<x>>
    ELSE IF big_lt(key[x], key[Head(s)]) THEN <<x>> \o s
         ELSE <<Head(s)>> \o InsertSorted(Tail(s), x, key)

\* sorted(s, key=...): a stable sort.
RECURSIVE sorted(_, _)
sorted(s, key) ==
    IF s = <<>> THEN <<>>
    ELSE InsertSorted(sorted(SubSeq(s, 1, Len(s) - 1), key), s[Len(s)], key)

\* A slip in the enumeration: only the combinations with the first element.
RECURSIVE combinations_short(_, _)
combinations_short(s, r) ==
    IF r = 0 THEN << <<>> >>
    ELSE IF Len(s) < r THEN <<>>
    ELSE LET withHead == combinations_short(Tail(s), r - 1)
         IN  [i \in 1..Len(withHead) |-> <<Head(s)>> \o withHead[i]]

\* itertools.combinations(s, r), in the order itertools yields them.
RECURSIVE combinations(_, _)
combinations(s, r) ==
    IF r = 0 THEN << <<>> >>
    ELSE IF Len(s) < r THEN <<>>
    ELSE LET withHead == combinations(Tail(s), r - 1)
             without  == combinations(Tail(s), r)
         IN  [i \in 1..Len(withHead) |-> <<Head(s)>> \o withHead[i]] \o without

(***************************************************************************)
(* utils.value_formula, in thousandths.                                    *)
(***************************************************************************)
\* pow(x, 1.1) for x given in fortieths, result in thousandths.
pow11(x40) ==
    CASE x40 = 10  -> 218
      [] x40 = 20  -> 467
      [] x40 = 30  -> 729
      [] x40 = 40  -> 1000
      [] x40 = 60  -> 1562
      [] x40 = 80  -> 2144
      [] x40 = 120 -> 3348
      [] x40 = 160 -> 4595
      [] x40 = 400 -> 12589

\* value_formula dividing by the duration factor instead of multiplying.
value_formula_inverse(magnitude, duration) ==
    LET magnitude_factor == IF magnitude # 0 THEN magnitude ELSE 2
        duration_factor  == IF duration # 0 THEN duration ELSE 20
    IN  pow11((magnitude_factor * 400) \div duration_factor)

\* magnitude and duration in halves; magnitude_factor is in halves and
\* duration_factor (duration / 10) in twentieths, their product in fortieths.
value_formula(magnitude, duration) ==
    LET magnitude_factor == IF magnitude # 0 THEN magnitude ELSE 2
        duration_factor  == IF duration # 0 THEN duration ELSE 20
    IN  pow11(magnitude_factor * duration_factor)

\* Data.compute_base_value (alchemy_old.py), in the same units.
compute_base_value(magnitude, duration) ==
    LET magnitude_factor == IF magnitude # 0 THEN magnitude ELSE 2
        duration_factor  == IF duration # 0 THEN duration ELSE 20
    IN  pow11(magnitude_factor * duration_factor)

\* Row.value with 5 in the place of a duration of 0.
Row_value_half_default(magnitude, duration) ==
    LET mag == IF magnitude # 0 THEN magnitude ELSE 2
        dur == IF duration # 0 THEN duration ELSE 10
    IN  pow11(mag * dur)

\* Row.value (src/data.py): pow(mag * dur / 10, 1.1), with 1 for a magnitude
\* of 0 and 10 for a duration of 0; mag and dur in halves, mag * dur / 10 in
\* fortieths.
Row_value(magnitude, duration) ==
    LET mag == IF magnitude # 0 THEN magnitude ELSE 2
        dur == IF duration # 0 THEN duration ELSE 20
    IN  pow11(mag * dur)

(***************************************************************************)
(* State.                                                                  *)
(***************************************************************************)
VARIABLES
    pc,                        \* position of read()
    Data_ingredients,          \* Data.ingredients: list of Ingredient
    Data_effects,              \* Data.effects: list of Effect
    Data_traits,               \* Data.traits: list of Trait objects
    Data_potencies,            \* Data.potencies: list of Potency objects
    Data_potions,              \* Data.potions: list of Potion
    Data_potions_by_potencies, \* dict: potencies tuple -> list of Potion
    Data_potions_by_effects,   \* dict: effects tuple -> list of Potion
    Ingredient,                \* the Ingredient objects, by name
    Effect,                    \* the Effect objects, by name
    create_cache,              \* functools.cache of Potency.create
    set_order,                 \* iteration order of the sets max() has walked
    next_comb,                 \* index of the next combination of the loop
    ret,                       \* last call of Potion.from_ingredients
    first_run                  \* Data.potions of an earlier run on the same files

vars == << pc, Data_ingredients, Data_effects, Data_traits, Data_potencies,
           Data_potions, Data_potions_by_potencies, Data_potions_by_effects,
           Ingredient, Effect, create_cache, set_order, next_comb, ret,
           first_run >>

\* Ingredient.__init__
Ingredient_init(row) ==
    [name |-> row.name, value |-> int(row.value),
     plantable |-> (row.plantable = "True"),
     vendor_rarity |-> row.vendor_rarity, unique_to |-> row.unique_to,
     traits |-> <<>>, effects |-> <<>>, potencies |-> <<>>,
     traits_by_effects |-> [e \in EffectNames |-> {}],
     potions |-> <<>>,
     average_potion_price |-> 0, median_potion_price |-> 0]

\* Ingredient.from_row (alchemy.py) on line Len(Data.ingredients) + 1 of
\* ingredients.csv: int() raises ValueError on a value that is no number,
\* before the object exists; otherwise the object is appended.
Ingredient_from_row(row) ==
    /\ pc = "ingredients"
    /\ Len(Data_ingredients) < Len(IngredientRows)
    /\ IF int_raises(row.value)
       THEN /\ pc' = "ValueError"
            /\ UNCHANGED << Data_ingredients, Ingredient >>
       ELSE /\ Data_ingredients' = Append(Data_ingredients, row.name)
            /\ Ingredient' = Ingredient @@ (row.name :> Ingredient_init(row))
            /\ UNCHANGED pc
    /\ UNCHANGED << Data_effects, Data_traits, Data_potencies, Data_potions,
                    Data_potions_by_potencies, Data_potions_by_effects, Effect,
                    create_cache, set_order, next_comb, ret, first_run >>

\* Effect.__init__
Effect_init(row) ==
    [name |-> row.name, effect_type |-> row.effect_type,
     base_cost |-> row.base_cost,
     median_magnitude |-> 0, median_duration |-> 0, median_price |-> 0,
     traits |-> <<>>, potencies |-> <<>>, ingredients |-> <<>>,
     traits_by_potencies |-> <<>>,
     median_accessibility |-> 0]

\* The state once ingredients.csv and effects.csv have been read.
Init ==
    /\ pc = "traits"
    /\ Data_ingredients = [i \in DOMAIN IngredientRows |-> IngredientRows[i].name]
    /\ Ingredient = [n \in IngredientNames |->
                       Ingredient_init(CHOOSE r \in Range(IngredientRows) : r.name = n)]
    /\ \E t2 \in EffectTypes :
         /\ Data_effects = [i \in DOMAIN EffectRows(t2) |-> EffectRows(t2)[i].name]
         /\ Effect = [n \in EffectNames |->
                        Effect_init(CHOOSE r \in Range(EffectRows(t2)) : r.name = n)]
    /\ Data_traits = <<>>
    /\ Data_potencies = <<>>
    /\ Data_potions = <<>>
    /\ Data_potions_by_potencies = <<>>
    /\ Data_potions_by_effects = <<>>
    /\ create_cache = <<>>
    /\ set_order = <<>>
    /\ next_comb = 1
    /\ ret = [args |-> <<>>, built |-> FALSE, potencies |-> <<>>, returned |-> FALSE]
    /\ first_run = [finished |-> FALSE, potions |-> <<>>]

\* The state when read() opens ingredients.csv: nothing is loaded.
InitIngredients ==
    /\ pc = "ingredients"
    /\ Data_ingredients = <<>>
    /\ Ingredient = <<>>
    /\ Data_effects = <<>>
    /\ Effect = <<>>
    /\ Data_traits = <<>>
    /\ Data_potencies = <<>>
    /\ Data_potions = <<>>
    /\ Data_potions_by_potencies = <<>>
    /\ Data_potions_by_effects = <<>>
    /\ create_cache = <<>>
    /\ set_order = <<>>
    /\ next_comb = 1
    /\ ret = [args |-> <<>>, built |-> FALSE, potencies |-> <<>>, returned |-> FALSE]
    /\ first_run = [finished |-> FALSE, potions |-> <<>>]

\* read() over ingredients.csv, whose fields are tokens of the file.
NextIngredients ==
    \E row \in RawIngredientRows(Len(Data_ingredients) + 1) :
        Ingredient_from_row(row)

SpecIngredients == InitIngredients /\ [][NextIngredients]_vars

(***************************************************************************)
(* Loading traits.csv.                                                     *)
(***************************************************************************)
\* A plain assignment d[k] = [v] in the place of d[k].append(v).
DictAssign(d, k, v) ==
    IF k \in DOMAIN d THEN [d EXCEPT ![k] = <<v>>] ELSE d @@ (k :> <<v>>)

\* defaultdict(list): d[k].append(v)
DictAppend(d, k, v) ==
    IF k \in DOMAIN d THEN [d EXCEPT ![k] = Append(@, v)] ELSE d @@ (k :> <<v>>)

\* Potency.__init__
Potency_init(effect, magnitude, duration) ==
    [effect |-> effect, magnitude |-> magnitude, duration |-> duration,
     price |-> value_formula(magnitude, duration) * Effect[effect].base_cost]

\* Potency.create without its cache: every call makes a new object.
Potency_create_uncached(effect, magnitude, duration) ==
    [pot |-> Len(Data_potencies) + 1,
     potencies |-> Append(Data_potencies, Potency_init(effect, magnitude, duration)),
     cache |-> create_cache]

\* Potency.create under functools.cache: the body runs once per argument
\* tuple, later calls return the object of the first one.
Potency_create(effect, magnitude, duration) ==
    LET key == <<effect, magnitude, duration>>
    IN  IF key \in DOMAIN create_cache
        THEN [pot |-> create_cache[key], potencies |-> Data_potencies,
              cache |-> create_cache]
        ELSE [pot |-> Len(Data_potencies) + 1,
              potencies |-> Append(Data_potencies,
                                   Potency_init(effect, magnitude, duration)),
              cache |-> create_cache @@ (key :> Len(Data_potencies) + 1)]

\* Trait.from_row (with Trait.__init__), for a row naming a known ingredient
\* and a known effect.
Trait_from_row(row) ==
    /\ pc = "traits"
    /\ Len(Data_traits) < MaxTraits
    /\ LET ing     == row.ingredient_name
           eff     == row.effect_name
           created == Potency_create(eff, row.magnitude, row.duration)
           pot     == created.pot
           trait   == Len(Data_traits) + 1
       IN  /\ Data_potencies' = created.potencies
           /\ create_cache' = created.cache
           /\ Data_traits' = Append(Data_traits,
                                    [ingredient |-> ing, potency |-> pot,
                                     order |-> row.order])
           /\ Ingredient' = [Ingredient EXCEPT
                  ![ing].traits = Append(@, trait),
                  ![ing].potencies = Append(@, pot),
                  ![ing].effects = Append(@, eff),
                  ![ing].traits_by_effects[eff] = {trait}]
           /\ Effect' = [Effect EXCEPT
                  ![eff].traits = Append(@, trait),
                  ![eff].potencies = Append(@, pot),
                  ![eff].ingredients = Append(@, ing),
                  ![eff].traits_by_potencies = DictAppend(@, pot, trait)]
    /\ UNCHANGED << pc, Data_ingredients, Data_effects, Data_potions,
                    Data_potions_by_potencies, Data_potions_by_effects,
                    set_order, next_comb, ret, first_run >>

\* Names traits.csv may hold that ingredients.csv and effects.csv do not.
UnknownIngredientNames == {"I0"}
UnknownEffectNames == {"E0"}

\* Rows of traits.csv that name an ingredient or an effect never loaded.
UnknownRows ==
    { r \in [ingredient_name : IngredientNames \cup UnknownIngredientNames,
             effect_name : EffectNames \cup UnknownEffectNames,
             magnitude : {2}, duration : Durations, order : {1}] :
        \/ r.ingredient_name \in UnknownIngredientNames
        \/ r.effect_name \in UnknownEffectNames }

\* Ingredient.get (alchemy.py): the loop falls through for a name that is
\* not loaded and the function returns None.
Ingredient_get(name) ==
    IF name \in Range(Data_ingredients) THEN name ELSE "None"

\* Effect.get (alchemy.py): None for a name that is not loaded.
Effect_get(name) ==
    IF name \in Range(Data_effects) THEN name ELSE "None"

\* The message of the AttributeError raised by an attribute access on None.
AttributeError(attribute) ==
    "AttributeError: 'NoneType' object has no attribute '" \o attribute \o "'"

\* The message of the KeyError raised by Ingredient.get and Effect.get of
\* data.py.
KeyError(kind, name) == "KeyError: " \o kind \o " " \o name \o " not found"

\* Trait.from_row (with Trait.__init__) for a row of UnknownRows.  With an
\* unknown effect Potency.__init__ reads None.base_cost before anything is
\* stored.  With a known effect and an unknown ingredient the potency is
\* created, the trait is appended to Data.traits and ing.traits raises.
Trait_from_row_unknown(row) ==
    /\ pc = "traits"
    /\ Len(Data_traits) < MaxTraits
    /\ LET ing == Ingredient_get(row.ingredient_name)
           eff == Effect_get(row.effect_name)
       IN  IF eff = "None"
           THEN /\ pc' = AttributeError("base_cost")
                /\ UNCHANGED << Data_traits, Data_potencies, create_cache >>
           ELSE LET created == Potency_create(eff, row.magnitude, row.duration)
                IN  /\ Data_potencies' = created.potencies
                    /\ create_cache' = created.cache
                    /\ Data_traits' = Append(Data_traits,
                                             [ingredient |-> ing,
                                              potency |-> created.pot,
                                              order |-> row.order])
                    /\ pc' = AttributeError("traits")
    /\ UNCHANGED << Data_ingredients, Data_effects, Data_potions,
                    Data_potions_by_potencies, Data_potions_by_effects,
                    Ingredient, Effect, set_order, next_comb, ret, first_run >>

\* Trait.create of data.py for a row of UnknownRows: Data.traits.add hashes
\* the trait, the hash resolves the ingredient and then creates the potency,
\* whose own hash resolves the effect; the first name not found raises
\* KeyError before anything is added.
data_py_Trait_create_unknown(row) ==
    /\ pc = "traits"
    /\ Len(Data_traits) < MaxTraits
    /\ pc' = IF row.ingredient_name \notin Range(Data_ingredients)
             THEN KeyError("Ingredient", row.ingredient_name)
             ELSE KeyError("Effect", row.effect_name)
    /\ UNCHANGED << Data_ingredients, Data_effects, Data_traits, Data_potencies,
                    Data_potions, Data_potions_by_potencies,
                    Data_potions_by_effects, Ingredient, Effect, create_cache,
                    set_order, next_comb, ret, first_run >>

(***************************************************************************)
(* Derived attributes of the reference data.                               *)
(***************************************************************************)
\* statistics.mean of a non-empty collection of fixed point numbers.
mean(s) == SumSeq(s) \div Len(s)

\* statistics.median of a non-empty list.
median(s) ==
    LET t == sorted(s, [x \in Range(s) |-> <<x, 0>>])
        n == Len(t)
    IN  IF n % 2 = 1 THEN t[(n + 1) \div 2]
        ELSE (t[n \div 2] + t[n \div 2 + 1]) \div 2

\* statistics.median of a non-empty list of accessibility factors.
median_big(s) ==
    LET t == sorted(s, [x \in Range(s) |-> x])
        n == Len(t)
    IN  IF n % 2 = 1 THEN t[(n + 1) \div 2]
        ELSE big_mid(t[n \div 2], t[n \div 2 + 1])

\* Ingredient.average_potency_price, the mean of the set of prices, rounded
\* to hundredths as accessibility_factor rounds it.  Defined for an
\* ingredient with a potency; statistics.mean raises on an empty set.
average_potency_price_round2(ing) ==
    LET prices == {Data_potencies[Ingredient[ing].potencies[i]].price :
                     i \in DOMAIN Ingredient[ing].potencies}
        n == Cardinality(prices)
    IN  (2 * SumSet(prices) + 10 * n) \div (20 * n)

\* Ingredient.accessibility_factor, in hundredths: the last two steps,
\* "res *= 100" and "res += round(average_potency_price, 2)", make the pair.
accessibility_factor(ing) ==
    LET self == Ingredient[ing]
        r1 == (IF self.plantable THEN 2
               ELSE IF self.name \in {"Daedra Heart", "Strange Remains"} THEN 9
               ELSE 5) * 10
        r2 == (r1 + (IF self.value < 50 THEN 1
                     ELSE IF self.value < 250 THEN 3 ELSE 9)) * 10
        r3 == (r2 + (CASE self.vendor_rarity = "common" -> 1
                       [] self.vendor_rarity = "uncommon" -> 2
                       [] self.vendor_rarity = "rare" -> 4
                       [] self.vendor_rarity = "limited" -> 7
                       [] OTHER -> 9)) * 10
        r4 == (r3 + (IF self.unique_to \in {"", "Requiem"} THEN 1
                     ELSE IF self.unique_to = "Fishing" THEN 9 ELSE 4)) * 1000
        r5 == r4 + self.value
    IN  big(r5, average_potency_price_round2(ing))

\* accessibility_factor raises (statistics.mean of an empty set) for an
\* ingredient without potencies.
accessibility_raises(ing) == Ingredient[ing].potencies = <<>>

\* sorted(ings): Ingredient.__lt__ compares accessibility_factor.
sorted_ingredients(ings) ==
    sorted(ings, [n \in Range(ings) |-> accessibility_factor(n)])

\* The phase of read() that follows the medians, and the one that follows
\* the loop over the pairs: a loop over no combination is skipped.
after_medians ==
    IF Len(combinations(Data_ingredients, 2)) > 0 THEN "pairs"
    ELSE IF Len(combinations(Data_ingredients, 3)) > 0 THEN "triples"
    ELSE "post"

after_pairs ==
    IF Len(combinations(Data_ingredients, 3)) > 0 THEN "triples" ELSE "post"

\* Effect eff with the medians read() gives it.
with_medians(eff) ==
    LET self == Effect[eff]
        mags == [i \in DOMAIN self.traits |->
                   Data_potencies[Data_traits[self.traits[i]].potency].magnitude]
        durs == [i \in DOMAIN self.traits |->
                   Data_potencies[Data_traits[self.traits[i]].potency].duration]
        accs == [i \in DOMAIN self.ingredients |->
                   accessibility_factor(self.ingredients[i])]
    IN  [self EXCEPT
           !.median_magnitude = median(mags),
           !.median_duration = median(durs),
           !.median_price = value_formula(median(mags), median(durs)) * self.base_cost,
           !.median_accessibility = median_big(accs)]

\* read(), once traits.csv has ended: the loop over Data.effects that sets
\* the medians.  statistics.median raises on the empty trait list of an
\* effect; the effects before it keep the medians they were given.
read_medians ==
    /\ pc = "traits"
    /\ LET empty == {i \in DOMAIN Data_effects : Effect[Data_effects[i]].traits = <<>>}
           stop  == IF empty = {} THEN Len(Data_effects) + 1
                    ELSE CHOOSE i \in empty : \A j \in empty : i <= j
       IN  /\ Effect' = [n \in EffectNames |->
                  IF \E i \in 1..(stop - 1) : Data_effects[i] = n
                  THEN with_medians(n) ELSE Effect[n]]
           /\ pc' = IF empty = {} THEN after_medians ELSE "crashed"
    /\ next_comb' = 1
    /\ UNCHANGED << Data_ingredients, Data_effects, Data_traits, Data_potencies,
                    Data_potions, Data_potions_by_potencies,
                    Data_potions_by_effects, Ingredient, create_cache,
                    set_order, ret, first_run >>

(***************************************************************************)
(* Potion.                                                                 *)
(***************************************************************************)
\* A slip in Potion.traits_by_effects: every trait of the ingredients is
\* taken (ing.traits), not the trait sets they hold per effect.
Potion_traits_by_effects_all(ingredients) ==
    [e \in EffectNames |->
        {t \in UNION {Range(Ingredient[ingredients[i]].traits) : i \in DOMAIN ingredients} :
            Data_potencies[Data_traits[t].potency].effect = e}]

\* Potion.traits_by_effects: per effect, the union of the trait sets its
\* ingredients hold for it (an empty set stands for a missing key).
Potion_traits_by_effects(ingredients) ==
    [e \in EffectNames |->
        UNION {Ingredient[ingredients[i]].traits_by_effects[e] :
                 i \in DOMAIN ingredients}]

\* The traits of an effect in the order "res[effect] |= traits" adds them:
\* the order of the ingredient tuple.  The layout of the set, and so the
\* order in which it is walked, is a function of this sequence.
RECURSIVE traits_added(_, _)
traits_added(ingredients, e) ==
    IF ingredients = <<>> THEN <<>>
    ELSE LET ts == Ingredient[Head(ingredients)].traits_by_effects[e]
         IN  (IF ts = {} THEN <<>> ELSE <<CHOOSE t \in ts : TRUE>>)
             \o traits_added(Tail(ingredients), e)

\* max() taken for min(): the lowest priced potencies.
min_price(traits) ==
    LET pots == {Data_traits[t].potency : t \in traits}
    IN  {p \in pots : \A q \in pots : Data_potencies[q].price >= Data_potencies[p].price}

\* The potencies max(..., key=price) may return: the highest priced ones.
\* Which of several it returns is the first one the set iteration reaches.
max_price(traits) ==
    LET pots == {Data_traits[t].potency : t \in traits}
    IN  {p \in pots : \A q \in pots : Data_potencies[q].price <= Data_potencies[p].price}

\* A slip: every effect with a trait counts.
shared_effects_any(ingredients) ==
    {e \in EffectNames : Cardinality(Potion_traits_by_effects(ingredients)[e]) > 0}

\* The effects of a potion: those with more than one trait.
shared_effects(ingredients) ==
    {e \in EffectNames : Cardinality(Potion_traits_by_effects(ingredients)[e]) > 1}

\* sorted(..., key=name) of a set of effects.
RECURSIVE sorted_by_name(_)
sorted_by_name(S) ==
    IF S = {} THEN <<>>
    ELSE LET e == CHOOSE x \in S : \A y \in S : NameRank(x) <= NameRank(y)
         IN  <<e>> \o sorted_by_name(S \ {e})

\* Potion.potencies: the outcomes of one evaluation, given the set orders
\* seen so far.  Each outcome is the tuple and the set orders then known.
Potion_potencies(ingredients, order) ==
    LET tbe == Potion_traits_by_effects(ingredients)
        Q   == shared_effects(ingredients)
        key == [e \in Q |-> traits_added(ingredients, e)]
        \* what max() may return for an effect
        winners == [e \in Q |->
                      IF key[e] \in DOMAIN order THEN {order[key[e]]}
                      ELSE max_price(tbe[e])]
        picks == { f \in [Q -> DOMAIN Data_potencies] : \A e \in Q : f[e] \in winners[e] }
        names == sorted_by_name(Q)
    IN  { [potencies |-> [i \in DOMAIN names |-> f[names[i]]],
           order |-> [k \in DOMAIN order \cup {key[e] : e \in Q} |->
                        IF k \in DOMAIN order THEN order[k]
                        ELSE f[CHOOSE e \in Q : key[e] = k]]] : f \in picks }

\* Potion.effects
Potion_effects(ingredients) == sorted_by_name(shared_effects(ingredients))

\* Potion.price
Potion_price(potencies) ==
    SumSeq([i \in DOMAIN potencies |-> Data_potencies[potencies[i]].price])

effect_type(pot) == Effect[Data_potencies[pot].effect].effect_type

\* Potion.pure with its body replaced by the commented "return True".
Potion_pure_true(potencies) == TRUE

\* Potion.pure: pairwise() walks the adjacent potencies.
Potion_pure(potencies) ==
    \A i \in 1..(Len(potencies) - 1) :
        effect_type(potencies[i]) = effect_type(potencies[i + 1])

\* A slip in the redundancy loop: only the first sub-combination is tried.
RECURSIVE mini_potions_first(_, _, _)
mini_potions_first(pairs, potencies, order) ==
    IF pairs = <<>> THEN {[redundant |-> FALSE, order |-> order]}
    ELSE { [redundant |-> (m.potencies = potencies), order |-> m.order] :
             m \in Potion_potencies(Head(pairs), order) }

\* The redundancy loop if "if not mini_potion" skipped every sub-combination.
mini_potions_skipped(pairs, potencies, order) ==
    {[redundant |-> FALSE, order |-> order]}

\* The loop of from_ingredients over combinations(potion.ingredients, 2):
\* a Potion object is never falsy, so "if not mini_potion" skips nothing, and
\* the loop returns at the first sub-combination with the same potencies.
RECURSIVE mini_potions(_, _, _)
mini_potions(pairs, potencies, order) ==
    IF pairs = <<>> THEN {[redundant |-> FALSE, order |-> order]}
    ELSE UNION { IF m.potencies = potencies
                 THEN {[redundant |-> TRUE, order |-> m.order]}
                 ELSE mini_potions(Tail(pairs), potencies, m.order) :
                   m \in Potion_potencies(Head(pairs), order) }

\* from_ingredients returns None and changes nothing in Data.  built tells
\* whether the Potion object was made, potencies is its potencies.
from_ingredients_none(ingredients, built, potencies, order) ==
    /\ ret' = [args |-> ingredients, built |-> built, potencies |-> potencies,
               returned |-> FALSE]
    /\ set_order' = order
    /\ UNCHANGED << Data_potions, Data_potions_by_potencies,
                    Data_potions_by_effects, Ingredient >>

\* from_ingredients putting the accepted potion at the head of Data.potions.
from_ingredients_accept_front(ingredients, potencies, order) ==
    LET potion == [ingredients |-> ingredients, potencies |-> potencies,
                   effects |-> Potion_effects(ingredients)]
    IN  /\ Data_potions' = <<potion>> \o Data_potions
        /\ Data_potions_by_potencies' =
               DictAppend(Data_potions_by_potencies, potion.potencies, potion)
        /\ Data_potions_by_effects' =
               DictAppend(Data_potions_by_effects, potion.effects, potion)
        /\ Ingredient' = [n \in IngredientNames |->
               IF n \in Range(ingredients)
               THEN [Ingredient[n] EXCEPT !.potions = Append(@, potion)]
               ELSE Ingredient[n]]
        /\ set_order' = order
        /\ ret' = [args |-> ingredients, built |-> TRUE, potencies |-> potencies,
                   returned |-> TRUE]

\* from_ingredients registers the potion and returns it.
from_ingredients_accept(ingredients, potencies, order) ==
    LET potion == [ingredients |-> ingredients, potencies |-> potencies,
                   effects |-> Potion_effects(ingredients)]
    IN  /\ Data_potions' = Append(Data_potions, potion)
        /\ Data_potions_by_potencies' =
               DictAppend(Data_potions_by_potencies, potion.potencies, potion)
        /\ Data_potions_by_effects' =
               DictAppend(Data_potions_by_effects, potion.effects, potion)
        /\ Ingredient' = [n \in IngredientNames |->
               IF n \in Range(ingredients)
               THEN [Ingredient[n] EXCEPT !.potions = Append(@, potion)]
               ELSE Ingredient[n]]
        /\ set_order' = order
        /\ ret' = [args |-> ingredients, built |-> TRUE, potencies |-> potencies,
                   returned |-> TRUE]

\* Potion.from_ingredients
from_ingredients(ingredients) ==
    IF Len(ingredients) > Cardinality(Range(ingredients))
    THEN from_ingredients_none(ingredients, FALSE, <<>>, set_order)
    ELSE \E ev \in Potion_potencies(ingredients, set_order) :
           IF ev.potencies = <<>>
           THEN from_ingredients_none(ingredients, TRUE, ev.potencies, ev.order)
           ELSE IF ~Potion_pure(ev.potencies)
           THEN from_ingredients_none(ingredients, TRUE, ev.potencies, ev.order)
           ELSE IF Len(ingredients) = 3
           THEN \E chk \in mini_potions(combinations(ingredients, 2),
                                        ev.potencies, ev.order) :
                  IF chk.redundant
                  THEN from_ingredients_none(ingredients, TRUE, ev.potencies, chk.order)
                  ELSE from_ingredients_accept(ingredients, ev.potencies, chk.order)
           ELSE from_ingredients_accept(ingredients, ev.potencies, ev.order)

(***************************************************************************)
(* The driver read().                                                      *)
(***************************************************************************)
\* One pass of a combinations loop of read(): sorted() raises when an
\* ingredient has no potency (its accessibility_factor takes the mean of an
\* empty set); otherwise the sorted tuple goes to from_ingredients.
read_combination(combs, after) ==
    /\ next_comb <= Len(combs)
    /\ LET comb == combs[next_comb]
       IN  IF \E n \in Range(comb) : accessibility_raises(n)
           THEN /\ pc' = "crashed"
                /\ UNCHANGED << Data_potions, Data_potions_by_potencies,
                                Data_potions_by_effects, Ingredient, set_order,
                                ret, next_comb >>
           ELSE /\ LET ingredients == sorted_ingredients(comb)
                   IN  from_ingredients(ingredients)
                /\ IF next_comb = Len(combs)
                   THEN pc' = after /\ next_comb' = 1
                   ELSE pc' = pc /\ next_comb' = next_comb + 1
    /\ UNCHANGED << Data_ingredients, Data_effects, Data_traits, Data_potencies,
                    Effect, create_cache, first_run >>

\* read(): "for ing1, ing2 in combinations(Data.ingredients, 2)".
read_pairs ==
    /\ pc = "pairs"
    /\ LET combs == combinations(Data_ingredients, 2)
       IN  read_combination(combs, after_pairs)

\* read(): "for ing1, ing2, ing3 in combinations(Data.ingredients, 3)".
read_triples ==
    /\ pc = "triples"
    /\ LET combs == combinations(Data_ingredients, 3)
       IN  read_combination(combs, "post")

\* Comparison of two ingredient tuples, as Python compares tuples: the first
\* position where they differ decides, by Ingredient.__lt__.
tuple_lt(a, b) ==
    LET diff == {i \in DOMAIN a \cap DOMAIN b : a[i] # b[i]}
    IN  IF diff = {} THEN Len(a) < Len(b)
        ELSE LET d == CHOOSE i \in diff : \A j \in diff : i <= j
             IN  big_lt(accessibility_factor(a[d]), accessibility_factor(b[d]))

RECURSIVE insert_potion(_, _)
insert_potion(s, p) ==
    IF s = <<>> THEN <<p>>
    ELSE IF tuple_lt(p.ingredients, Head(s).ingredients) THEN <<p>> \o s
         ELSE <<Head(s)>> \o insert_potion(Tail(s), p)

\* sorted(potions, key=lambda p: p.ingredients), a stable insertion sort.
RECURSIVE sorted_potions(_)
sorted_potions(s) ==
    IF s = <<>> THEN <<>>
    ELSE insert_potion(sorted_potions(SubSeq(s, 1, Len(s) - 1)), s[Len(s)])

\* Ingredient ing with the potion statistics read() gives it.
with_potion_prices(ing) ==
    LET self == Ingredient[ing]
        prices == [i \in DOMAIN self.potions |-> Potion_price(self.potions[i].potencies)]
    IN  [self EXCEPT !.average_potion_price = mean(prices),
                     !.median_potion_price = median(prices)]

\* read(), after the two loops: the potion statistics of every ingredient
\* (statistics.mean raises for an ingredient that is in no potion), then the
\* sort of every group of Data.potions_by_potencies.
read_post ==
    /\ pc = "post"
    /\ LET empty == {i \in DOMAIN Data_ingredients :
                       Ingredient[Data_ingredients[i]].potions = <<>>}
           stop  == IF empty = {} THEN Len(Data_ingredients) + 1
                    ELSE CHOOSE i \in empty : \A j \in empty : i <= j
       IN  /\ Ingredient' = [n \in IngredientNames |->
                  IF \E i \in 1..(stop - 1) : Data_ingredients[i] = n
                  THEN with_potion_prices(n) ELSE Ingredient[n]]
           /\ IF empty = {}
              THEN /\ pc' = "done"
                   /\ Data_potions_by_potencies' =
                         [k \in DOMAIN Data_potions_by_potencies |->
                            sorted_potions(Data_potions_by_potencies[k])]
              ELSE /\ pc' = "crashed"
                   /\ UNCHANGED Data_potions_by_potencies
    /\ UNCHANGED << Data_ingredients, Data_effects, Data_traits, Data_potencies,
                    Data_potions, Data_potions_by_effects, Effect, create_cache,
                    set_order, next_comb, ret, first_run >>

\* The rows the next line of traits.csv may hold while the file is being
\* read: the file lists the traits ingredient by ingredient, in the order of
\* ingredients.csv.
rows_to_read ==
    LET rank(n) == CHOOSE i \in DOMAIN IngredientRows : IngredientRows[i].name = n
    IN  IF pc # "traits" THEN {}
        ELSE { r \in TraitRows :
                 \/ Data_traits = <<>>
                 \/ rank(Data_traits[Len(Data_traits)].ingredient)
                        <= rank(r.ingredient_name) }

\* list.remove(x): the list without the first occurrence of x.
RECURSIVE list_remove(_, _)
list_remove(s, x) ==
    IF s = <<>> THEN <<>>
    ELSE IF Head(s) = x THEN Tail(s)
    ELSE <<Head(s)>> \o list_remove(Tail(s), x)

\* Ingredient.compatible_ingredients (alchemy.py), for an ingredient with a
\* trait; list.remove raises ValueError for one without.
compatible_ingredients(self) ==
    LET match(trait) == Data_potencies[trait.potency].effect
                           \in Range(Ingredient[self].effects)
        matching == SelectSeq(Data_traits, match)
        res == [i \in DOMAIN matching |-> matching[i].ingredient]
    IN  list_remove(res, self)

\* A second execution of read() on the same files, taken up to the start of
\* the loops: the same objects are loaded, no potion exists yet and the sets
\* are laid out afresh.  The potions of the finished loops are kept aside.
run_again ==
    /\ pc = "post"
    /\ ~first_run.finished
    /\ first_run' = [finished |-> TRUE, potions |-> Data_potions]
    /\ pc' = after_medians
    /\ next_comb' = 1
    /\ Data_potions' = <<>>
    /\ Data_potions_by_potencies' = <<>>
    /\ Data_potions_by_effects' = <<>>
    /\ Ingredient' = [n \in IngredientNames |-> [Ingredient[n] EXCEPT !.potions = <<>>]]
    /\ set_order' = <<>>
    /\ ret' = [args |-> <<>>, built |-> FALSE, potencies |-> <<>>, returned |-> FALSE]
    /\ UNCHANGED << Data_ingredients, Data_effects, Data_traits, Data_potencies,
                    Effect, create_cache >>

Next ==
    \/ \E row \in rows_to_read : Trait_from_row(row)
    \/ read_medians
    \/ read_pairs
    \/ read_triples
    \/ read_post

Spec == Init /\ [][Next]_vars

\* read() and the loader of data.py on files whose traits.csv may name
\* ingredients and effects that were never loaded.
NextLoad ==
    \/ Next
    \/ \E row \in UnknownRows : Trait_from_row_unknown(row)
    \/ \E row \in UnknownRows : data_py_Trait_create_unknown(row)

SpecLoad == Init /\ [][NextLoad]_vars

\* Rows of traits.csv over the magnitudes 0, 0.5 and 1.0 and the durations
\* 0, 5 and 10, and one of magnitude 10 and duration 10 (in halves), all of
\* one ingredient and one effect.
PriceRows ==
    { r \in [ingredient_name : {"I1"}, effect_name : {"E1"},
             magnitude : {0, 1, 2, 20}, duration : {0, 10, 20}, order : {1}] :
        r.magnitude = 20 => r.duration = 20 }

\* read() over a traits.csv made of such rows: every row prices a potency
\* with value_formula.
NextPrices == \E row \in PriceRows : Trait_from_row(row)

SpecPrices == Init /\ [][NextPrices]_vars

(***************************************************************************)
(* The loader of skyrim_alchemy/data.py.  Data.traits and Data.potencies   *)
(* are sets there; an object is named by the row it was made from.         *)
(***************************************************************************)
\* float(token) of Python on the magnitudes of the rows below, in halves:
\* "1" and "1.0" are the same number.
float_literals == ("1" :> 2) @@ ("1.0" :> 2) @@ ("2" :> 4)
float(token) == float_literals[token]

\* The rows traits.csv may hold, field by field as csv.DictReader gives them.
RawTraitRows ==
    { r \in [ingredient_name : {"I1", "I2"}, effect_name : EffectNames,
             magnitude : DOMAIN float_literals, duration : {"10"},
             order : {"1", "2"}] :
        r.effect_name = "E2" => (r.magnitude = "1" /\ r.order = "1") }

\* Potency.effect, Potency.magnitude and Potency.duration (a whole number
\* of seconds here).
data_py_Potency_effect(potency) == potency.row.effect_name
data_py_Potency_magnitude(potency) == float(potency.row.magnitude)
data_py_Potency_duration(potency) == int(potency.row.duration)

\* Potency.__hash__: the hash of (effect, magnitude, duration).
data_py_Potency_hash(potency) ==
    << data_py_Potency_effect(potency), data_py_Potency_magnitude(potency),
       data_py_Potency_duration(potency) >>

\* Potency.__eq__
data_py_Potency_eq(self, obj) ==
    /\ data_py_Potency_effect(self) = data_py_Potency_effect(obj)
    /\ data_py_Potency_magnitude(self) = data_py_Potency_magnitude(obj)
    /\ data_py_Potency_duration(self) = data_py_Potency_duration(obj)

\* Trait.potency: Potency.create(row) is cached on the row, so the potency of
\* a trait is the object made from the trait's own row.
data_py_Trait_potency(trait) == [row |-> trait.row]

\* Trait.__hash__
data_py_Trait_hash(trait) ==
    << trait.row.ingredient_name, data_py_Potency_hash(data_py_Trait_potency(trait)) >>

\* Trait.__eq__
data_py_Trait_eq(self, obj) ==
    /\ self.row.ingredient_name = obj.row.ingredient_name
    /\ data_py_Potency_eq(data_py_Trait_potency(self), data_py_Trait_potency(obj))

\* Data.potencies.add in a set that tells its members apart by identity.
Data_potencies_add_by_identity(S, x) == S \cup {x}

\* Data.potencies.add(x): x is added unless a member with the hash of x
\* equals x.
Data_potencies_add(S, x) ==
    IF \E y \in S : data_py_Potency_hash(y) = data_py_Potency_hash(x)
                       /\ data_py_Potency_eq(y, x)
    THEN S ELSE S \cup {x}

\* Data.traits.add(x), likewise with the hash and the equality of Trait.
Data_traits_add(S, x) ==
    IF \E y \in S : data_py_Trait_hash(y) = data_py_Trait_hash(x)
                       /\ data_py_Trait_eq(y, x)
    THEN S ELSE S \cup {x}

\* Potency.create of data.py under functools.cache, keyed on the row: the
\* body runs once per row and adds the new object to the set Data.potencies.
data_py_Potency_create(row) ==
    IF row \in DOMAIN create_cache
    THEN [pot |-> create_cache[row], potencies |-> Data_potencies,
          cache |-> create_cache]
    ELSE [pot |-> [row |-> row],
          potencies |-> Data_potencies_add(Data_potencies, [row |-> row]),
          cache |-> create_cache @@ (row :> [row |-> row])]

\* Trait.create of data.py: the log line and Data.traits.add hash the trait,
\* which resolves its ingredient and creates its potency.
data_py_Trait_create(row) ==
    /\ pc = "traits"
    /\ row \in DOMAIN create_cache \/ Cardinality(DOMAIN create_cache) < MaxTraits
    /\ LET created == data_py_Potency_create(row)
       IN  /\ Data_potencies' = created.potencies
           /\ create_cache' = created.cache
           /\ Data_traits' = Data_traits_add(Data_traits, [row |-> row])
    /\ UNCHANGED << pc, Data_ingredients, Data_effects, Data_potions,
                    Data_potions_by_potencies, Data_potions_by_effects,
                    Ingredient, Effect, set_order, next_comb, ret, first_run >>

\* The state of data.py once Data.read_csvs has read ingredients.csv and
\* effects.csv: the sets of traits and potencies are empty.
InitData ==
    /\ pc = "traits"
    /\ Data_ingredients = [i \in DOMAIN IngredientRows |-> IngredientRows[i].name]
    /\ Ingredient = [n \in IngredientNames |->
                       Ingredient_init(CHOOSE r \in Range(IngredientRows) : r.name = n)]
    /\ \E t2 \in EffectTypes :
         /\ Data_effects = [i \in DOMAIN EffectRows(t2) |-> EffectRows(t2)[i].name]
         /\ Effect = [n \in EffectNames |->
                        Effect_init(CHOOSE r \in Range(EffectRows(t2)) : r.name = n)]
    /\ Data_traits = {}
    /\ Data_potencies = {}
    /\ Data_potions = <<>>
    /\ Data_potions_by_potencies = <<>>
    /\ Data_potions_by_effects = <<>>
    /\ create_cache = <<>>
    /\ set_order = <<>>
    /\ next_comb = 1
    /\ ret = [args |-> <<>>, built |-> FALSE, potencies |-> <<>>, returned |-> FALSE]
    /\ first_run = [finished |-> FALSE, potions |-> <<>>]

\* Data.read_csvs of data.py over traits.csv.
NextData == \E row \in RawTraitRows : data_py_Trait_create(row)

SpecData == InitData /\ [][NextData]_vars

(***************************************************************************)
(* src/data.py: Data.populate and the loops of its main block.  Data.rows  *)
(* is the list of Row objects and Data.potions a set that may hold None.   *)
(***************************************************************************)
\* The rows values.csv may hold.  The magnitude is 0.5, 1.0 or 2.0 by the
\* ingredient, so no two rows of different ingredients have one value and
\* max() over rows has one answer.
MixMagnitude == ("I1" :> 1) @@ ("I2" :> 2) @@ ("I3" :> 4)

MixRows ==
    { r \in [ingredient_name : IngredientNames, effect_name : EffectNames,
             magnitude : {1, 2, 4}, duration : Durations] :
        r.magnitude = MixMagnitude[r.ingredient_name] }

\* None, and the Potion object of a frozenset of ingredients.
None == [none |-> TRUE, ingredients |-> {}]
Potion(ingredients) == [none |-> FALSE, ingredients |-> ingredients]

\* Ingredient.effects of src/data.py: the effects of the rows of the
\* ingredient.
data_Ingredient_effects(name) ==
    {Data_traits[i].effect_name :
        i \in {j \in DOMAIN Data_traits : Data_traits[j].ingredient_name = name}}

\* Data.rows_dict[ingredient][effect]: the last row of the two names.
rows_dict(ingredient, effect) ==
    LET at == {i \in DOMAIN Data_traits :
                  /\ Data_traits[i].ingredient_name = ingredient
                  /\ Data_traits[i].effect_name = effect}
    IN  Data_traits[CHOOSE i \in at : \A j \in at : j <= i]

\* max() of a set of rows, which Row.__lt__ orders by Row.value.
max_row(rows) ==
    CHOOSE r \in rows :
        \A q \in rows : Row_value(q.magnitude, q.duration)
                           <= Row_value(r.magnitude, r.duration)

\* The effect types of a set of effect names.
effect_types(effects) == {Effect[e].effect_type : e \in effects}

\* Potion.mix
Potion_mix(ing1, ing2) ==
    LET key == {ing1, ing2}
        common_effects == data_Ingredient_effects(ing1) \cap data_Ingredient_effects(ing2)
    IN  IF common_effects = {} THEN None
        ELSE IF Cardinality(effect_types(common_effects)) > 1 THEN None
        ELSE Potion(key)

\* Potion._get_combined_effects: per effect the rows rows_dict has for the
\* ingredients, and of every effect with more than one row the largest.
Potion_get_combined_effects(ingredients) ==
    LET dct == [e \in EffectNames |->
                  {rows_dict(n, e) : n \in {m \in ingredients :
                                              e \in data_Ingredient_effects(m)}}]
    IN  {max_row(dct[e]) : e \in {f \in EffectNames : Cardinality(dct[f]) > 1}}

\* Potion.enrich
Potion_enrich(potion, ingredient) ==
    IF Cardinality(potion.ingredients) > 2 THEN None
    ELSE LET new_ingredients == potion.ingredients \cup {ingredient}
             new_effects == Potion_get_combined_effects(new_ingredients)
         IN  IF new_effects = Potion_get_combined_effects(potion.ingredients)
             THEN None
             ELSE IF Cardinality(effect_types({r.effect_name : r \in new_effects})) > 1
             THEN None
             ELSE Potion(new_ingredients)

\* Data.populate: one line of values.csv becomes a Row of Data.rows.
Data_populate_row(row) ==
    /\ pc = "traits"
    /\ Len(Data_traits) < MaxTraits
    /\ Data_traits' = Append(Data_traits, row)
    /\ UNCHANGED << pc, Data_ingredients, Data_effects, Data_potencies,
                    Data_potions, Data_potions_by_potencies,
                    Data_potions_by_effects, Ingredient, Effect, create_cache,
                    set_order, next_comb, ret, first_run >>

\* The main block, once populate has returned, enters its first loop.
main_populated ==
    /\ pc = "traits"
    /\ pc' = "mix"
    /\ next_comb' = 1
    /\ UNCHANGED << Data_ingredients, Data_effects, Data_traits, Data_potencies,
                    Data_potions, Data_potions_by_potencies,
                    Data_potions_by_effects, Ingredient, Effect, create_cache,
                    set_order, ret, first_run >>

\* One pass of "for ing1 in Data.ingredients: for ing2 in Data.ingredients:
\* Data.potions.add(Potion.mix(ing1, ing2))"; next_comb counts the passes.
main_mix ==
    /\ pc = "mix"
    /\ LET n    == Len(Data_ingredients)
           ing1 == Data_ingredients[((next_comb - 1) \div n) + 1]
           ing2 == Data_ingredients[((next_comb - 1) % n) + 1]
       IN  /\ Data_potions' = Data_potions \cup {Potion_mix(ing1, ing2)}
           /\ IF next_comb = n * n
              THEN pc' = "enrich" /\ next_comb' = 1
              ELSE pc' = pc /\ next_comb' = next_comb + 1
    /\ UNCHANGED << Data_ingredients, Data_effects, Data_traits, Data_potencies,
                    Data_potions_by_potencies, Data_potions_by_effects,
                    Ingredient, Effect, create_cache, set_order, ret, first_run >>

\* The second loop, whole: every potion of the copy pots_2ing that is not
\* None is enriched with every ingredient and the result is added.
main_enrich ==
    /\ pc = "enrich"
    /\ LET pots_2ing == Data_potions
       IN  Data_potions' = Data_potions \cup
              {Potion_enrich(pot, ing3) :
                  pot \in {p \in pots_2ing : ~p.none},
                  ing3 \in Range(Data_ingredients)}
    /\ pc' = "main_done"
    /\ UNCHANGED << Data_ingredients, Data_effects, Data_traits, Data_potencies,
                    Data_potions_by_potencies, Data_potions_by_effects,
                    Ingredient, Effect, create_cache, set_order, next_comb, ret,
                    first_run >>

\* The state of src/data.py before values.csv is read, the ingredients and
\* the effects being those of the other loaders.
InitMix ==
    /\ pc = "traits"
    /\ Data_ingredients = [i \in DOMAIN IngredientRows |-> IngredientRows[i].name]
    /\ Ingredient = [n \in IngredientNames |->
                       Ingredient_init(CHOOSE r \in Range(IngredientRows) : r.name = n)]
    /\ \E t2 \in EffectTypes :
         /\ Data_effects = [i \in DOMAIN EffectRows(t2) |-> EffectRows(t2)[i].name]
         /\ Effect = [n \in EffectNames |->
                        Effect_init(CHOOSE r \in Range(EffectRows(t2)) : r.name = n)]
    /\ Data_traits = <<>>
    /\ Data_potencies = <<>>
    /\ Data_potions = {}
    /\ Data_potions_by_potencies = <<>>
    /\ Data_potions_by_effects = <<>>
    /\ create_cache = <<>>
    /\ set_order = <<>>
    /\ next_comb = 1
    /\ ret = [args |-> <<>>, built |-> FALSE, potencies |-> <<>>, returned |-> FALSE]
    /\ first_run = [finished |-> FALSE, potions |-> <<>>]

NextMix ==
    \/ \E row \in MixRows : Data_populate_row(row)
    \/ main_populated
    \/ main_mix
    \/ main_enrich

SpecMix == InitMix /\ [][NextMix]_vars

\* Two executions of read() on the same files.
NextRuns ==
    \/ Next
    \/ run_again

SpecRuns == Init /\ [][NextRuns]_vars


(***************************************************************************)
(* book.py with ingredient.py and potion.py: the same tables, read into    *)
(* Data, and the two loops over Potion.from_ingredients of potion.py.      *)
(* trait.py and potency.py are not among the sources: the rows are taken   *)
(* as loaded by Trait_from_row, and a Potency is ordered by its price.     *)
(***************************************************************************)
\* Ingredient.accessibility_factor of ingredient.py, in hundredths.  Defined
\* for an ingredient with a potency.
ingredient_py_accessibility_factor(ing) ==
    LET self == Ingredient[ing]
        r1 == (IF self.plantable THEN 1
               ELSE IF self.name \in {"Daedra Heart", "Strange Remains"} THEN 9
               ELSE 2) * 2
        r2 == (r1 + (IF self.value < 50 THEN 1
                     ELSE IF self.value < 250 THEN 3
                     ELSE IF self.value < 750 THEN 5 ELSE 9)) * 2
        r3 == (r2 + (CASE self.vendor_rarity = "common" -> 1
                       [] self.vendor_rarity = "uncommon" -> 2
                       [] self.vendor_rarity = "rare" -> 4
                       [] self.vendor_rarity = "limited" -> 7
                       [] OTHER -> 9)) * 2
        r4 == (r3 + (IF self.unique_to \in {"", "Requiem"} THEN 1
                     ELSE IF self.unique_to = "Fishing" THEN 9 ELSE 4)) * 10
        r5 == (r4 + self.value) * 2
    IN  r5 * 100 + average_potency_price_round2(ing)

\* Sorting ingredients by Ingredient.__lt__ of ingredient.py raises when one
\* of them has no potency (statistics.mean of nothing) and when two of them
\* have the same accessibility_factor (__lt__ returns NotImplemented, and
\* "<" then raises TypeError).
ingredient_py_sort_raises(ings) ==
    \/ \E n \in Range(ings) : Ingredient[n].potencies = <<>>
    \/ \E i, j \in DOMAIN ings :
          /\ i < j
          /\ ings[i] # ings[j]
          /\ ingredient_py_accessibility_factor(ings[i])
                = ingredient_py_accessibility_factor(ings[j])

\* sorted(ings) by Ingredient.__lt__ of ingredient.py, when it does not raise.
ingredient_py_sorted(ings) ==
    sorted(ings, [n \in Range(ings) |-> <<ingredient_py_accessibility_factor(n), 0>>])

\* all_traits chaining the traits of the first two ingredients only.
potion_py_all_traits_two(ingredients) ==
    IF Len(ingredients) < 2 THEN <<>>
    ELSE Ingredient[ingredients[1]].traits \o Ingredient[ingredients[2]].traits

\* Potion.all_traits of potion.py: the traits of the ingredients, chained.
RECURSIVE potion_py_all_traits(_)
potion_py_all_traits(ingredients) ==
    IF ingredients = <<>> THEN <<>>
    ELSE Ingredient[Head(ingredients)].traits
            \o potion_py_all_traits(Tail(ingredients))

\* Potion.all_potencies_by_effect of potion.py: per effect, the traits whose
\* potencies make its group, in the order of all_traits.
potion_py_all_potencies_by_effect(ingredients) ==
    LET all == potion_py_all_traits(ingredients)
    IN  [e \in EffectNames |->
           LET of_e(t) == Data_potencies[Data_traits[t].potency].effect = e
           IN  SelectSeq(all, of_e)]

\* Potion.potencies of potion.py: max() of every group of more than one
\* potency.  Of several potencies of the highest price max() returns the
\* first of the group; book.py sorts Data.traits by the ordering of trait.py
\* before, so which one is first is some function of the group.
potion_py_potencies(ingredients, order) ==
    LET groups == potion_py_all_potencies_by_effect(ingredients)
        Q   == {e \in EffectNames : Len(groups[e]) > 1}
        winners == [e \in Q |->
                      IF groups[e] \in DOMAIN order THEN {order[groups[e]]}
                      ELSE max_price(Range(groups[e]))]
        picks == { f \in [Q -> DOMAIN Data_potencies] : \A e \in Q : f[e] \in winners[e] }
        names == sorted_by_name(Q)
    IN  { [potencies |-> [i \in DOMAIN names |-> f[names[i]]],
           order |-> [k \in DOMAIN order \cup {groups[e] : e \in Q} |->
                        IF k \in DOMAIN order THEN order[k]
                        ELSE f[CHOOSE e \in Q : groups[e] = k]]] : f \in picks }

\* Potion.pure of potion.py
potion_py_pure(potencies) ==
    \A i \in 1..(Len(potencies) - 1) :
        effect_type(potencies[i]) = effect_type(potencies[i + 1])

\* Potion.is_improvement of potion.py, for the pairs still to try.
RECURSIVE potion_py_is_improvement(_, _, _)
potion_py_is_improvement(pairs, potencies, order) ==
    IF pairs = <<>> THEN {[improvement |-> TRUE, order |-> order]}
    ELSE UNION { IF m.potencies = potencies
                 THEN {[improvement |-> FALSE, order |-> m.order]}
                 ELSE potion_py_is_improvement(Tail(pairs), potencies, m.order) :
                   m \in potion_py_potencies(ingredient_py_sorted(Head(pairs)), order) }

\* The end of Potion.from_ingredients of potion.py: the potion goes to
\* Data.potions when it passed the three tests, and is returned either way.
potion_py_return(ingredients, potencies, order, passed) ==
    /\ Data_potions' =
          IF passed
          THEN Append(Data_potions,
                      [ingredients |-> ingredients, potencies |-> potencies,
                       effects |-> [i \in DOMAIN potencies |->
                                      Data_potencies[potencies[i]].effect]])
          ELSE Data_potions
    /\ set_order' = order
    /\ ret' = [args |-> ingredients, built |-> TRUE, potencies |-> potencies,
               returned |-> TRUE]

\* Potion.from_ingredients of potion.py, for ingredients that sort.
potion_py_from_ingredients(ingredients) ==
    LET new_ings == ingredient_py_sorted(ingredients)
    IN  \E ev \in potion_py_potencies(new_ings, set_order) :
           IF Len(ev.potencies) > 0 /\ potion_py_pure(ev.potencies)
           THEN IF Len(new_ings) = 2
                THEN potion_py_return(new_ings, ev.potencies, ev.order, TRUE)
                ELSE \E chk \in potion_py_is_improvement(
                                   combinations(new_ings, 2), ev.potencies, ev.order) :
                        potion_py_return(new_ings, ev.potencies, chk.order,
                                         chk.improvement)
           ELSE potion_py_return(new_ings, ev.potencies, ev.order, FALSE)

\* book.py, from the end of traits.csv to the first loop: Data.ingredients is
\* sorted, which may raise.  The sorts of Data.traits and Data.potencies move
\* no object, and the traits and potencies are named by their objects here.
book_sort ==
    /\ pc = "traits"
    /\ IF ingredient_py_sort_raises(Data_ingredients)
       THEN pc' = "crashed" /\ UNCHANGED Data_ingredients
       ELSE /\ pc' = "book_pairs"
            /\ Data_ingredients' = ingredient_py_sorted(Data_ingredients)
    /\ next_comb' = 1
    /\ UNCHANGED << Data_effects, Data_traits, Data_potencies, Data_potions,
                    Data_potions_by_potencies, Data_potions_by_effects,
                    Ingredient, Effect, create_cache, set_order, ret, first_run >>

\* One pass of a loop of book.py over combinations(Data.ingredients, r).
book_combination(combs, after) ==
    /\ next_comb <= Len(combs)
    /\ potion_py_from_ingredients(ingredient_py_sorted(combs[next_comb]))
    /\ IF next_comb = Len(combs)
       THEN pc' = after /\ next_comb' = 1
       ELSE pc' = pc /\ next_comb' = next_comb + 1
    /\ UNCHANGED << Data_ingredients, Data_effects, Data_traits, Data_potencies,
                    Data_potions_by_potencies, Data_potions_by_effects,
                    Ingredient, Effect, create_cache, first_run >>

\* book.py: "for ing1, ing2 in combinations(Data.ingredients, 2)".
book_pairs ==
    /\ pc = "book_pairs"
    /\ book_combination(combinations(Data_ingredients, 2), "book_triples")

\* book.py: "for ing1, ing2, ing3 in combinations(Data.ingredients, 3)".
book_triples ==
    /\ pc = "book_triples"
    /\ book_combination(combinations(Data_ingredients, 3), "book_done")

\* A slip in compatible_ingredients of ingredient.py: "and i != self" left out.
ingredient_py_compatible_ingredients_self(self) ==
    LET match(i) == Range(Ingredient[i].effects) \cap Range(Ingredient[self].effects) # {}
    IN  ingredient_py_sorted(SelectSeq(Data_ingredients, match))

\* Ingredient.compatible_ingredients of ingredient.py, when sorted() does not
\* raise.
ingredient_py_compatible_ingredients(self) ==
    LET match(i) ==
           /\ Range(Ingredient[i].effects) \cap Range(Ingredient[self].effects) # {}
           /\ i # self
    IN  ingredient_py_sorted(SelectSeq(Data_ingredients, match))

\* sorted() in compatible_ingredients of ingredient.py raises when two of the
\* ingredients it sorts have the same accessibility_factor.
ingredient_py_compatible_raises(self) ==
    LET match(i) ==
           /\ Range(Ingredient[i].effects) \cap Range(Ingredient[self].effects) # {}
           /\ i # self
    IN  ingredient_py_sort_raises(SelectSeq(Data_ingredients, match))

\* Ingredient.effects of skyrim_alchemy/data.py: the effects of the potencies
\* of the traits of Data.traits that name the ingredient.
data_py_Ingredient_effects(self) ==
    {Data_potencies[Data_traits[t].potency].effect :
        t \in {u \in DOMAIN Data_traits : Data_traits[u].ingredient = self}}

\* Ingredient.compatible_ingredients of skyrim_alchemy/data.py
data_py_compatible_ingredients(self) ==
    {ingredient \in Range(Data_ingredients) \ {self} :
        data_py_Ingredient_effects(ingredient)
           \cap data_py_Ingredient_effects(self) # {}}

NextBook ==
    \/ \E row \in rows_to_read : Trait_from_row(row)
    \/ book_sort
    \/ book_pairs
    \/ book_triples

SpecBook == Init /\ [][NextBook]_vars

\* Either driver, on the same tables.
NextDrivers ==
    \/ Next
    \/ NextBook

SpecDrivers == Init /\ [][NextDrivers]_vars

(***************************************************************************)
(* What the properties below speak of.                                     *)
(***************************************************************************)
\* The effect of a trait.
trait_effect(t) == Data_potencies[Data_traits[t].potency].effect

\* The traits ingredient n has for effect e, by the registry Data.traits.
traits_of(n, e) ==
    {t \in DOMAIN Data_traits : Data_traits[t].ingredient = n /\ trait_effect(t) = e}

\* Ingredient n has at most one trait per effect.
one_trait_per_effect(n) == \A e \in EffectNames : Cardinality(traits_of(n, e)) <= 1

\* The ingredients of a tuple that have a trait for effect e.
sharers(ingredients, e) == {n \in Range(ingredients) : traits_of(n, e) # {}}

\* The effects of a tuple of potencies.
effects_of(potencies) ==
    {Data_potencies[potencies[i]].effect : i \in DOMAIN potencies}

\* All potencies of the tuple have one effect type.
same_type(potencies) ==
    \A i, j \in DOMAIN potencies :
        effect_type(potencies[i]) = effect_type(potencies[j])

\* The potions that were built: those of Data.potions and the one of the
\* last call of from_ingredients, returned or not.
built_potions ==
    {[ingredients |-> p.ingredients, potencies |-> p.potencies] :
        p \in Range(Data_potions)}
    \cup (IF ret.built
          THEN {[ingredients |-> ret.args, potencies |-> ret.potencies]}
          ELSE {})

(***************************************************************************)
(* Properties.                                                             *)
(***************************************************************************)
\* C1: for every potion built from 2 or 3 distinct ingredients that have at
\* most one trait per effect, an effect is among the potencies, and among
\* Potion.effects, if and only if at least two ingredients of the potion have
\* a trait for it, and the potencies hold exactly one potency per such
\* effect.
C1_SharedEffectsOnly ==
    /\ \A p \in built_potions :
          (\A n \in Range(p.ingredients) : one_trait_per_effect(n)) =>
             /\ \A e \in EffectNames :
                   e \in effects_of(p.potencies)
                      <=> Cardinality(sharers(p.ingredients, e)) >= 2
             /\ Len(p.potencies) = Cardinality(effects_of(p.potencies))
    /\ \A p \in Range(Data_potions) :
          (\A n \in Range(p.ingredients) : one_trait_per_effect(n)) =>
             /\ \A e \in EffectNames :
                   e \in Range(p.effects)
                      <=> Cardinality(sharers(p.ingredients, e)) >= 2
             /\ Len(p.effects) = Cardinality(Range(p.effects))

\* C1, its case: a potion of ingredients with one trait per effect that has
\* a shared effect, while another effect is carried by one ingredient only.
C1_Witness ==
    \E p \in Range(Data_potions) :
        /\ \A n \in Range(p.ingredients) : one_trait_per_effect(n)
        /\ \E e1, e2 \in EffectNames :
              /\ e1 \in effects_of(p.potencies)
              /\ Cardinality(sharers(p.ingredients, e1)) >= 2
              /\ Cardinality(sharers(p.ingredients, e2)) = 1
              /\ e2 \notin effects_of(p.potencies)

\* C2: for each effect shared by at least two ingredients of a potion, the
\* potency of the potion for that effect is a potency one of its ingredients
\* has for the effect, and no potency its ingredients have for the effect has
\* a higher price.
C2_WinnerIsMaxPriced ==
    \A p \in built_potions :
       \A e \in EffectNames :
          Cardinality(sharers(p.ingredients, e)) >= 2 =>
             LET theirs == {Data_traits[t].potency :
                              t \in UNION {traits_of(n, e) : n \in Range(p.ingredients)}}
             IN  \E i \in DOMAIN p.potencies :
                    /\ Data_potencies[p.potencies[i]].effect = e
                    /\ p.potencies[i] \in theirs
                    /\ \A q \in theirs :
                          Data_potencies[q].price <= Data_potencies[p.potencies[i]].price

\* C3: every potion of Data.potions has potencies of one effect type, and
\* Potion.pure, which compares neighbours, is true of a tuple of potencies
\* exactly when all of them have one effect type; the tuples are those of the
\* built potions and all tuples of up to three loaded potencies.
C3_PotionsArePure ==
    /\ \A p \in Range(Data_potions) : same_type(p.potencies)
    /\ \A p \in built_potions : Potion_pure(p.potencies) <=> same_type(p.potencies)
    /\ \A len \in 0..3 :
          \A potencies \in [1..len -> DOMAIN Data_potencies] :
             Potion_pure(potencies) <=> same_type(potencies)

\* C3, its case: a combination whose shared effects are one beneficial and
\* one harmful was built and not returned, and it is in Data.potions neither.
C3_Witness ==
    /\ ret.built
    /\ Len(ret.potencies) = 2
    /\ ~same_type(ret.potencies)
    /\ ~ret.returned
    /\ \A p \in Range(Data_potions) : Range(p.ingredients) # Range(ret.args)

\* What a pair of ingredients yields: its potencies, as Potion.potencies
\* gives them under the set orders of the run.
yields(pair) == {ev.potencies : ev \in Potion_potencies(pair, set_order)}

\* C4: a valid, pure combination of three ingredients is accepted if and only
\* if none of its three pairs yields the potencies of the triple, and so every
\* three-ingredient potion of Data.potions differs in potencies from each
\* combination of two of its ingredients.
C4_NonRedundantTriples ==
    /\ (/\ ret.built
        /\ Len(ret.args) = 3
        /\ ret.potencies # <<>>
        /\ same_type(ret.potencies))
       => (ret.returned
             <=> \A i, j \in 1..3 :
                    i < j => ret.potencies \notin yields(<<ret.args[i], ret.args[j]>>))
    /\ \A p \in Range(Data_potions) :
          Len(p.ingredients) = 3 =>
             /\ \A i, j \in 1..3 :
                   i < j => p.potencies \notin yields(<<p.ingredients[i], p.ingredients[j]>>)
             /\ \A q \in Range(Data_potions) :
                   Range(q.ingredients) \subseteq Range(p.ingredients)
                   /\ Len(q.ingredients) = 2
                      => q.potencies # p.potencies

\* C4, its case: a three-ingredient potion was accepted next to a potion of
\* two of its ingredients, with a potency more than the pair has.
C4_Witness ==
    \E p, q \in Range(Data_potions) :
        /\ Len(p.ingredients) = 3
        /\ Len(q.ingredients) = 2
        /\ Range(q.ingredients) \subseteq Range(p.ingredients)
        /\ Len(p.potencies) = 2


\* The loops of book.py are running or have run.
in_book == pc \in {"book_pairs", "book_triples", "book_done"}

\* What a tuple of ingredients yields under the builder of the driver that
\* runs.
builder_yields(ingredients) ==
    IF in_book
    THEN {ev.potencies : ev \in potion_py_potencies(ingredients, set_order)}
    ELSE yields(ingredients)

\* C5: Potion.from_ingredients, of alchemy.py and of potion.py, returns no
\* potion and adds none to Data.potions when the potencies of the combination
\* are none, or mix beneficial and harmful effects, or are those of one of
\* the pairs of a three-ingredient combination.
C5_RejectedReturnsNone ==
    (/\ ret.built
     /\ \/ ret.potencies = <<>>
        \/ ~same_type(ret.potencies)
        \/ /\ Len(ret.args) = 3
           /\ \E i, j \in 1..3 :
                 i < j /\ ret.potencies \in builder_yields(<<ret.args[i], ret.args[j]>>))
    => /\ ~ret.returned
       /\ \A p \in Range(Data_potions) : Range(p.ingredients) # Range(ret.args)

\* The tuple a driver passes to the builder for the set S of ingredients.
as_passed(S) ==
    LET in_S(n) == n \in S
        comb == SelectSeq(Data_ingredients, in_S)
    IN  IF in_book THEN ingredient_py_sorted(comb) ELSE sorted_ingredients(comb)

\* The set S of two or three ingredients is valid, pure and not redundant.
acceptable(S) ==
    LET t == as_passed(S)
    IN  \E P \in builder_yields(t) :
           /\ P # <<>>
           /\ same_type(P)
           /\ Len(t) = 3 =>
                 \A i, j \in 1..3 : i < j => P \notin builder_yields(<<t[i], t[j]>>)

\* C6: when the driver has finished its two loops, Data.potions holds exactly
\* one potion for every set of two or three loaded ingredients that is valid,
\* pure and not redundant, and nothing else.
C6_ExactlyTheAcceptable ==
    pc \in {"post", "done", "book_done"} =>
       /\ \A S \in SUBSET IngredientNames :
             Cardinality(S) \in {2, 3} =>
                (acceptable(S)
                   <=> \E i \in DOMAIN Data_potions :
                          Range(Data_potions[i].ingredients) = S)
       /\ \A i, j \in DOMAIN Data_potions :
             Range(Data_potions[i].ingredients) = Range(Data_potions[j].ingredients)
                => i = j
       /\ \A i \in DOMAIN Data_potions :
             /\ Len(Data_potions[i].ingredients)
                   = Cardinality(Range(Data_potions[i].ingredients))
             /\ Len(Data_potions[i].ingredients) \in {2, 3}
             /\ Data_potions[i].potencies
                   \in builder_yields(as_passed(Range(Data_potions[i].ingredients)))

\* C6, its case: the loops have finished with a pair accepted, a pair turned
\* down and the triple accepted.
C6_Witness ==
    /\ pc \in {"post", "done", "book_done"}
    /\ \E S, T \in SUBSET IngredientNames :
          /\ Cardinality(S) = 2
          /\ Cardinality(T) = 2
          /\ acceptable(S)
          /\ ~acceptable(T)
          /\ acceptable(IngredientNames)
          /\ \E i, j \in DOMAIN Data_potions :
                /\ Range(Data_potions[i].ingredients) = S
                /\ Range(Data_potions[j].ingredients) = IngredientNames

\* The result of a run: the accepted combinations, each with its potencies
\* and its price.
results(potions) ==
    { [ingredients |-> Range(potions[i].ingredients),
       potencies |-> Range(potions[i].potencies),
       price |-> Potion_price(potions[i].potencies)] : i \in DOMAIN potions }

\* C7: two runs of the enumeration on the same loaded data give the same
\* accepted combinations, each with the same potencies and the same price.
C7_RunsAgree ==
    (first_run.finished /\ pc \in {"post", "done"})
       => results(Data_potions) = results(first_run.potions)

\* C8: of several potencies of one effect with the highest price the one
\* chosen depends on the potencies only: whenever max() is taken over the
\* same highest priced potencies, whichever traits brought them and in
\* whichever order, it returns the same one.
C8_TieBreakFixed ==
    \A k1, k2 \in DOMAIN set_order :
        max_price(Range(k1)) = max_price(Range(k2))
           => set_order[k1] = set_order[k2]

\* The arguments a potency was created from.
triple(pot) ==
    <<Data_potencies[pot].effect, Data_potencies[pot].magnitude,
      Data_potencies[pot].duration>>

\* C9: in alchemy.py Potency.create returns the same Potency for the same
\* (effect, magnitude, duration): Data.potencies never holds two potencies of
\* one triple, the cache names for every triple the one potency made from it,
\* and traits of the same triple have the same Potency.
C9_OnePotencyPerTriple ==
    /\ \A p, q \in DOMAIN Data_potencies : triple(p) = triple(q) => p = q
    /\ DOMAIN create_cache = {triple(p) : p \in DOMAIN Data_potencies}
    /\ \A k \in DOMAIN create_cache :
          create_cache[k] \in DOMAIN Data_potencies /\ triple(create_cache[k]) = k
    /\ \A t, u \in DOMAIN Data_traits :
          triple(Data_traits[t].potency) = triple(Data_traits[u].potency)
             => Data_traits[t].potency = Data_traits[u].potency

\* C9, its case: two ingredients have traits of the same triple, made by two
\* calls of Potency.create, next to a potency of another triple.
C9_Witness ==
    /\ \E t, u \in DOMAIN Data_traits :
          /\ Data_traits[t].ingredient # Data_traits[u].ingredient
          /\ Data_traits[t].potency = Data_traits[u].potency
    /\ Len(Data_potencies) >= 2
    /\ Len(Data_traits) > Len(Data_potencies)

\* C10: in alchemy.py, compatible_ingredients of an ingredient X holds
\* neither X nor an ingredient without an effect in common with X.
C10_CompatibleExcludesSelf ==
    pc = "done" =>
       \A X \in IngredientNames :
          LET res == compatible_ingredients(X)
          IN  /\ X \notin Range(res)
              /\ \A Y \in Range(res) :
                    Range(Ingredient[Y].effects) \cap Range(Ingredient[X].effects) # {}


\* Ingredients X and Y have a trait of one effect each.
common_effect(X, Y) ==
    \E e \in EffectNames : traits_of(X, e) # {} /\ traits_of(Y, e) # {}

common_effects(X, Y) ==
    {e \in EffectNames : traits_of(X, e) # {} /\ traits_of(Y, e) # {}}

reports(error, name) ==
    \E kind \in {"Ingredient", "Effect"} : error = KeyError(kind, name)

\* The names of a row that are not loaded.
offending(row) ==
    ({row.ingredient_name} \ Range(Data_ingredients))
        \cup ({row.effect_name} \ Range(Data_effects))

\* C14: loading a trait row that names an ingredient or an effect that is
\* not loaded aborts with an error reporting the offending name and leaves
\* no Trait and no Potency of that row in Data.traits / Data.potencies.
C14_UnknownNameAborts ==
    [][\A row \in UnknownRows :
          (Trait_from_row_unknown(row) \/ data_py_Trait_create_unknown(row))
             => /\ \E name \in offending(row) : reports(pc', name)
                /\ Data_traits' = Data_traits
                /\ Data_potencies' = Data_potencies]_vars

\* An effect that no ingredient exhibits.
without_traits == {e \in EffectNames : Effect[e].traits = <<>>}

\* C15: an effect with no trait does not crash the run: the pass that sets
\* the medians of the effects goes on to the enumeration of the pairs (the
\* effect is skipped or reported) instead of raising on the empty collection.
C15_EmptyEffectGuarded ==
    [][(read_medians /\ without_traits # {}) => pc' = after_medians]_vars

\* A row of ingredients.csv with a value that is no number or a plantable
\* flag that is no boolean.
malformed(row) ==
    \/ row.value \notin {"10", "60", "250"}
    \/ row.plantable \notin {"True", "False"}

\* C16: a malformed numeric or boolean field of an input row is fatal at
\* load: the load aborts at once, no default value is put in its place and
\* the row is not loaded.
C16_MalformedFieldIsFatal ==
    [][\A row \in RawIngredientRows(Len(Data_ingredients) + 1) :
          (Ingredient_from_row(row) /\ malformed(row))
             => /\ pc' = "ValueError"
                /\ Data_ingredients' = Data_ingredients]_vars

\* The value the code computes for a potency.
value(p) == value_formula(p.magnitude, p.duration)

\* The potency objects of Data.potencies.
potencies == Range(Data_potencies)

\* C17 as stated: value_formula is non-decreasing in the magnitude for every
\* fixed duration and in the duration for every fixed magnitude, over all
\* non-negative inputs, 0 included.
C17_MonotoneFromZero ==
    \A p, q \in potencies :
        /\ (p.duration = q.duration /\ p.magnitude <= q.magnitude)
              => value(p) <= value(q)
        /\ (p.magnitude = q.magnitude /\ p.duration <= q.duration)
              => value(p) <= value(q)

\* C17, amended: value_formula is non-decreasing in the magnitude over the
\* positive magnitudes and in the duration over the positive durations, the
\* other argument being fixed at any value, 0 included; a magnitude or a
\* duration of 0 counts as the factor 1, that is as magnitude 1.0 or
\* duration 10.
C17_MonotoneAbovePositive ==
    \A p, q \in potencies :
        /\ (p.duration = q.duration /\ 0 < p.magnitude /\ p.magnitude <= q.magnitude)
              => value(p) <= value(q)
        /\ (p.magnitude = q.magnitude /\ 0 < p.duration /\ p.duration <= q.duration)
              => value(p) <= value(q)
        /\ value_formula(0, p.duration) = value_formula(2, p.duration)
        /\ value_formula(p.magnitude, 0) = value_formula(p.magnitude, 20)

\* Potencies that differ in the magnitude alone and potencies that differ in
\* the duration alone, all positive, have been priced, the larger ones higher.
C17_Witness ==
    /\ \E p, q \in potencies :
          /\ p.duration = q.duration /\ 0 < p.magnitude /\ p.magnitude < q.magnitude
          /\ value(p) < value(q)
    /\ \E p, q \in potencies :
          /\ p.magnitude = q.magnitude /\ 0 < p.duration /\ p.duration < q.duration
          /\ value(p) < value(q)

\* pow(magFactor * durFactor, 1.1) as the specification words it, in the
\* units of value_formula.
spec_value(magnitude, duration) ==
    LET magFactor == IF magnitude = 0 THEN 2 ELSE magnitude
        durFactor == IF duration = 0 THEN 20 ELSE duration
    IN  pow11(magFactor * durFactor)

C19_BuilderHasNoSideEffects ==
    [][(read_pairs \/ read_triples \/ book_pairs \/ book_triples)
          => /\ Data_potions' = Data_potions
             /\ Data_potions_by_potencies' = Data_potions_by_potencies
             /\ Data_potions_by_effects' = Data_potions_by_effects
             /\ \A n \in IngredientNames :
                   Ingredient'[n].potions = Ingredient[n].potions]_vars

\* C20: once ingredients.csv, effects.csv and traits.csv are loaded, the
\* enumeration of the pairs and the triples and the steps after it leave
\* Data.ingredients, Data.effects, Data.traits, Data.potencies and every
\* field of every Ingredient, Effect, Trait and Potency as they were.
C20_ReferenceDataReadOnly ==
    [][(read_pairs \/ read_triples \/ read_post)
          => UNCHANGED << Data_ingredients, Data_effects, Data_traits,
                          Data_potencies, Ingredient, Effect >>]_vars

\* C21: after any sequence of trait rows every ingredient has at most one
\* trait per effect: Data.traits, ingredient.traits and ingredient.effects
\* hold no two traits of one ingredient for one effect, and they agree with
\* ingredient.traits_by_effects.
C21_OneTraitPerEffect ==
    \A n \in IngredientNames :
        /\ one_trait_per_effect(n)
        /\ \A i, j \in DOMAIN Ingredient[n].effects :
              Ingredient[n].effects[i] = Ingredient[n].effects[j] => i = j
        /\ \A e \in EffectNames :
              Ingredient[n].traits_by_effects[e]
                 = {t \in Range(Ingredient[n].traits) : trait_effect(t) = e}

\* The driver is in its loop over the pairs.
in_pairs == pc \in {"pairs", "book_pairs"}

\* The driver is in its loop over the triples, or past it.
past_pairs == pc \in {"triples", "post", "done", "book_triples", "book_done"}

\* C22: the driver evaluates no combination of three ingredients before it
\* has evaluated every combination of two: in Data.potions every potion of
\* two ingredients precedes every potion of three, no triple is built during
\* the loop over the pairs, and from the first triple on every pair has been
\* decided (the acceptable ones, and only they, are in Data.potions).
C22_PairsBeforeTriples ==
    /\ \A i, j \in DOMAIN Data_potions :
          (Len(Data_potions[i].ingredients) = 2
              /\ Len(Data_potions[j].ingredients) = 3) => i < j
    /\ in_pairs =>
          /\ ~(ret.built /\ Len(ret.args) = 3)
          /\ \A i \in DOMAIN Data_potions : Len(Data_potions[i].ingredients) = 2
    /\ past_pairs =>
          \A S \in SUBSET IngredientNames :
             Cardinality(S) = 2 =>
                (acceptable(S)
                   <=> \E i \in DOMAIN Data_potions :
                          Range(Data_potions[i].ingredients) = S)

\* The loop over the triples has accepted a triple after an accepted pair,
\* and another pair was turned down.
C22_Witness ==
    /\ past_pairs
    /\ \E i, j \in DOMAIN Data_potions :
          /\ Len(Data_potions[i].ingredients) = 2
          /\ Len(Data_potions[j].ingredients) = 3
    /\ \E S \in SUBSET IngredientNames : Cardinality(S) = 2 /\ ~acceptable(S)

\* How many times potion p is listed in the groups of index d under key k.
listed(d, k, p) ==
    IF k \in DOMAIN d THEN Cardinality({i \in DOMAIN d[k] : d[k][i] = p}) ELSE 0

\* Index d, whose key of a potion is key(p), lists every potion of
\* Data.potions once, under its own key, and nothing else; no group is empty.
grouped(d, key_of) ==
    /\ \A i \in DOMAIN Data_potions :
          \A k \in DOMAIN d \cup {key_of[i]} :
             listed(d, k, Data_potions[i]) = IF k = key_of[i] THEN 1 ELSE 0
    /\ \A k \in DOMAIN d :
          /\ d[k] # <<>>
          /\ \A j \in DOMAIN d[k] : d[k][j] \in Range(Data_potions)

\* C23: in alchemy.py, after any number of calls of Potion.from_ingredients
\* and after the sort of the groups that ends read(), every potion of
\* Data.potions is listed exactly once in Data.potions_by_potencies, under
\* its potencies, and exactly once in Data.potions_by_effects, under its
\* effects; the indices list no other potion and have no empty group; and
\* the potions of an ingredient are the accepted potions that contain it.
C23_IndicesMatchPotions ==
    /\ grouped(Data_potions_by_potencies,
               [i \in DOMAIN Data_potions |-> Data_potions[i].potencies])
    /\ grouped(Data_potions_by_effects,
               [i \in DOMAIN Data_potions |-> Data_potions[i].effects])
    /\ \A n \in IngredientNames :
          LET has_n(p) == n \in Range(p.ingredients)
          IN  Ingredient[n].potions = SelectSeq(Data_potions, has_n)

\* read() has ended with two groups by potencies, one of them of two potions
\* or more, and a group of three potions by effects.
C23_Witness ==
    /\ pc = "done"
    /\ \E k \in DOMAIN Data_potions_by_potencies :
          Len(Data_potions_by_potencies[k]) >= 2
    /\ Cardinality(DOMAIN Data_potions_by_potencies) >= 2
    /\ \E k \in DOMAIN Data_potions_by_effects :
          Len(Data_potions_by_effects[k]) >= 3

\* C24: in skyrim_alchemy/data.py, where Potency.create is cached on the
\* whole row, Data.potencies still never holds two members of one (effect,
\* magnitude, duration); every potency a trait was given has its equal in
\* Data.potencies; and the potencies of two traits of different ingredients
\* with equal triples compare equal and hash equal.
C24_NoDuplicatePotencies ==
    /\ \A p, q \in Data_potencies :
          data_py_Potency_hash(p) = data_py_Potency_hash(q) => p = q
    /\ \A r \in DOMAIN create_cache :
          \E p \in Data_potencies : data_py_Potency_eq(p, create_cache[r])
    /\ \A t, u \in Data_traits :
          LET p == create_cache[t.row]
              q == create_cache[u.row]
          IN  (/\ t.row.ingredient_name # u.row.ingredient_name
               /\ t.row.effect_name = u.row.effect_name
               /\ float(t.row.magnitude) = float(u.row.magnitude)
               /\ int(t.row.duration) = int(u.row.duration))
                 => /\ data_py_Potency_eq(p, q)
                    /\ data_py_Potency_hash(p) = data_py_Potency_hash(q)

\* Two ingredients have traits of one triple, made from rows that differ in
\* the spelling of the magnitude and in the order: two Potency objects were
\* created and Data.potencies holds one.
C24_Witness ==
    \E t, u \in Data_traits :
        /\ t.row.ingredient_name # u.row.ingredient_name
        /\ t.row.magnitude = "1" /\ u.row.magnitude = "1.0"
        /\ t.row.order # u.row.order
        /\ create_cache[t.row] # create_cache[u.row]
        /\ data_py_Potency_eq(create_cache[t.row], create_cache[u.row])
        /\ Cardinality(Data_potencies) = 1

\* The potions of Data.potions made of two of the given ingredients.
accepted_pairs_of(ingredients) ==
    {p \in Range(Data_potions) :
        Len(p.ingredients) = 2 /\ Range(p.ingredients) \subseteq Range(ingredients)}

\* C25: comparing the triple with every raw sub-combination of two comes to
\* the same as comparing it with the accepted ones: when read() evaluates a
\* valid pure triple, from_ingredients rejects it if and only if Data.potions
\* holds a potion of two of its ingredients with the same potencies.
C25_RawCheckIsAcceptedCheck ==
    (/\ pc \in {"triples", "post", "done"}
     /\ ret.built
     /\ Len(ret.args) = 3
     /\ ret.potencies # <<>>
     /\ same_type(ret.potencies))
       => (~ret.returned
             <=> \E p \in accepted_pairs_of(ret.args) : p.potencies = ret.potencies)

\* A valid pure triple was rejected, and another sub-combination of it has
\* no potency at all: the raw check met a pair that was never accepted.
C25_Witness ==
    /\ ret.built
    /\ Len(ret.args) = 3
    /\ ret.potencies # <<>>
    /\ same_type(ret.potencies)
    /\ ~ret.returned
    /\ Cardinality(accepted_pairs_of(ret.args)) < 3

\* The price of the potency of effect e in a tuple of potencies, 0 if none.
price_for(pots, e) ==
    SumSeq([i \in DOMAIN pots |->
              IF Data_potencies[pots[i]].effect = e
              THEN Data_potencies[pots[i]].price ELSE 0])

\* Potencies PT of a triple lose nothing against potencies PS of one of its
\* pairs: every effect of PS is in PT at a price not lower, and the total is
\* not lower.
loses_nothing(PT, PS) ==
    /\ effects_of(PS) \subseteq effects_of(PT)
    /\ \A e \in effects_of(PS) : price_for(PT, e) >= price_for(PS, e)
    /\ Potion_price(PT) >= Potion_price(PS)

\* C26: a third ingredient never loses anything: for the triple T of the
\* loaded ingredients and every pair S of them, under Potion.potencies of
\* alchemy.py and of potion.py, every effect of S's potencies is among T's,
\* T's potency for it has a price not below S's, and price(T) >= price(S).
C26_ThirdIngredientLosesNothing ==
    \A k \in DOMAIN combinations(Data_ingredients, 2) :
        LET T == Data_ingredients
            S == combinations(Data_ingredients, 2)[k]
        IN  /\ \A t \in Potion_potencies(T, set_order) :
                  \A u \in Potion_potencies(S, set_order) :
                     loses_nothing(t.potencies, u.potencies)
            /\ \A t \in potion_py_potencies(T, set_order) :
                  \A u \in potion_py_potencies(S, set_order) :
                     loses_nothing(t.potencies, u.potencies)

\* A pair has a potency and the third ingredient brings a dearer potency of
\* that effect, under both builders.
C26_Witness ==
    \E k \in DOMAIN combinations(Data_ingredients, 2) :
        LET T == Data_ingredients
            S == combinations(Data_ingredients, 2)[k]
        IN  /\ \E t \in Potion_potencies(T, set_order) :
                  \E u \in Potion_potencies(S, set_order) :
                     /\ u.potencies # <<>>
                     /\ \E e \in effects_of(u.potencies) :
                           price_for(t.potencies, e) > price_for(u.potencies, e)
            /\ \E t \in potion_py_potencies(T, set_order) :
                  \E u \in potion_py_potencies(S, set_order) :
                     /\ u.potencies # <<>>
                     /\ Potion_price(t.potencies) > Potion_price(u.potencies)

\* C27: in src/data.py, after the loop of Potion.mix over every (ing1, ing2)
\* and the loop of Potion.enrich over every potion of two and every ing3,
\* every member of Data.potions is a Potion of exactly 2 or 3 distinct
\* ingredients: none of one ingredient, and no None.
C27_TwoOrThreeIngredients ==
    pc = "main_done" =>
        \A p \in Data_potions :
            ~p.none /\ Cardinality(p.ingredients) \in {2, 3}

\* C28: in src/data.py no potion of three ingredients of Data.potions has
\* the combined effects of one of its three subsets of two ingredients.
C28_NoRedundantEnrichment ==
    pc = "main_done" =>
        \A p \in Data_potions :
            Cardinality(p.ingredients) = 3 =>
                \A S \in SUBSET p.ingredients :
                    Cardinality(S) = 2 =>
                        Potion_get_combined_effects(S)
                           # Potion_get_combined_effects(p.ingredients)

====
